---- MODULE Spec2Model ----
(***************************************************************************)
(* Model of the SevenRooms table bot: the three script variants of the     *)
(* repository (src/check.js, src/unnamed/part_001, src/unnamed/part_000),  *)
(* their time parsing, window test, JSON time extraction, notification     *)
(* ledger and the retrying checkAvailability run.                          *)
(*                                                                         *)
(* JavaScript strings are modelled as sequences of one-character strings,  *)
(* so that includes, toUpperCase, split, padStart and the regular          *)
(* expressions of the source are computed rather than assumed.             *)
(***************************************************************************)
EXTENDS Integers, Sequences, FiniteSets, TLC

(***************************************************************************)
(* Strings                                                                 *)
(***************************************************************************)

DigitChars == <<"0", "1", "2", "3", "4", "5", "6", "7", "8", "9">>

UpperAlpha ==
  <<"A", "B", "C", "D", "E", "F", "G", "H", "I", "J", "K", "L", "M",
    "N", "O", "P", "Q", "R", "S", "T", "U", "V", "W", "X", "Y", "Z">>

LowerAlpha ==
  <<"a", "b", "c", "d", "e", "f", "g", "h", "i", "j", "k", "l", "m",
    "n", "o", "p", "q", "r", "s", "t", "u", "v", "w", "x", "y", "z">>

Range(f) == {f[i] : i \in DOMAIN f}

IsDigit(c) == c \in Range(DigitChars)

\* the value of a decimal digit character
DigitVal(c) == (CHOOSE i \in DOMAIN DigitChars : DigitChars[i] = c) - 1

\* \w of a JavaScript regular expression: [A-Za-z0-9_]
IsWordChar(c) == c \in Range(DigitChars) \cup Range(UpperAlpha) \cup Range(LowerAlpha) \cup {"_"}

LowerChar(c) ==
  IF c \in Range(UpperAlpha)
    THEN LowerAlpha[CHOOSE i \in DOMAIN UpperAlpha : UpperAlpha[i] = c]
    ELSE c

UpperChar(c) ==
  IF c \in Range(LowerAlpha)
    THEN UpperAlpha[CHOOSE i \in DOMAIN LowerAlpha : LowerAlpha[i] = c]
    ELSE c

\* String.prototype.toLowerCase / toUpperCase
toLowerCase(s) == [i \in DOMAIN s |-> LowerChar(s[i])]

toUpperCase(s) == [i \in DOMAIN s |-> UpperChar(s[i])]

\* String.prototype.includes
includes(s, sub) ==
  \E i \in 0..(Len(s) - Len(sub)) : SubSeq(s, i + 1, i + Len(sub)) = sub

\* Array.prototype.some over a list of field names: lowerKey.includes(field)
someIncludes(lowerKey, fields) == \E i \in DOMAIN fields : includes(lowerKey, fields[i])

\* parseInt(s, 10) / Number(s) of a string of decimal digits
RECURSIVE parseInt(_)
parseInt(s) ==
  IF s = <<>> THEN 0
  ELSE 10 * parseInt(SubSeq(s, 1, Len(s) - 1)) + DigitVal(s[Len(s)])

\* Number.prototype.toString of a non-negative integer
RECURSIVE toString(_)
toString(n) ==
  IF n < 10 THEN <<DigitChars[n + 1]>>
  ELSE toString(n \div 10) \o <<DigitChars[(n % 10) + 1]>>

\* s.padStart(2, '0')
padStart2(s) == IF Len(s) < 2 THEN <<"0">> \o s ELSE s

\* String.prototype.split(sep) for a one-character separator
RECURSIVE split(_, _)
split(s, sep) ==
  IF \A i \in DOMAIN s : s[i] # sep THEN <<s>>
  ELSE LET i == CHOOSE j \in DOMAIN s : s[j] = sep /\ \A k \in 1..(j - 1) : s[k] # sep
       IN  <<SubSeq(s, 1, i - 1)>> \o split(SubSeq(s, i + 1, Len(s)), sep)

\* String.prototype.trim for the space character
RECURSIVE trim(_)
trim(s) ==
  IF s = <<>> THEN s
  ELSE IF s[1] = " " THEN trim(Tail(s))
  ELSE IF s[Len(s)] = " " THEN trim(SubSeq(s, 1, Len(s) - 1))
  ELSE s

(***************************************************************************)
(* Time parsing and the window test                                        *)
(***************************************************************************)

\* the value formatTime returns when nothing matches: null, which like the
\* empty string is falsy in `if (!formattedTime)`
NULL == <<>>

\* /(\d{1,2}):(\d{2})/ anchored at position i: the greedy two-digit hour
\* is tried first, then the one-digit hour
MatchTimeAt(s, i) ==
  IF /\ i + 4 <= Len(s)
     /\ IsDigit(s[i]) /\ IsDigit(s[i + 1]) /\ s[i + 2] = ":"
     /\ IsDigit(s[i + 3]) /\ IsDigit(s[i + 4])
    THEN [ok |-> TRUE, h |-> SubSeq(s, i, i + 1), m |-> SubSeq(s, i + 3, i + 4), end |-> i + 4]
  ELSE IF /\ i + 3 <= Len(s)
          /\ IsDigit(s[i]) /\ s[i + 1] = ":"
          /\ IsDigit(s[i + 2]) /\ IsDigit(s[i + 3])
    THEN [ok |-> TRUE, h |-> SubSeq(s, i, i), m |-> SubSeq(s, i + 2, i + 3), end |-> i + 3]
  ELSE [ok |-> FALSE, h |-> <<>>, m |-> <<>>, end |-> 0]

\* timeStr.match(/(\d{1,2}):(\d{2})/): the leftmost match
MatchTime(s) ==
  IF \E i \in DOMAIN s : MatchTimeAt(s, i).ok
    THEN MatchTimeAt(s, CHOOSE i \in DOMAIN s :
                          /\ MatchTimeAt(s, i).ok
                          /\ \A j \in 1..(i - 1) : ~MatchTimeAt(s, j).ok)
    ELSE [ok |-> FALSE, h |-> <<>>, m |-> <<>>, end |-> 0]

\* a test that takes every string for a time
hasTimePatternAny(s) == TRUE

\* value.match(/\d{1,2}:\d{2}/) used as a truth value
hasTimePattern(s) == MatchTime(s).ok

\* a formatTime without the AM rule
formatTimeNoAM(timeStr) ==
  LET timeMatch == MatchTime(timeStr)
      h0 == parseInt(timeMatch.h)
      minutes == parseInt(timeMatch.m)
      hours == IF includes(toUpperCase(timeStr), <<"P", "M">>) /\ h0 < 12 THEN h0 + 12 ELSE h0
  IN  IF ~timeMatch.ok THEN NULL
      ELSE padStart2(toString(hours)) \o <<":">> \o padStart2(toString(minutes))

\* formatTime(timeStr): the time of a string as HH:MM
formatTime(timeStr) ==
  LET timeMatch == MatchTime(timeStr)
      h0 == parseInt(timeMatch.h)
      minutes == parseInt(timeMatch.m)
      h1 == IF includes(toUpperCase(timeStr), <<"P", "M">>) /\ h0 < 12 THEN h0 + 12 ELSE h0
      hours == IF includes(toUpperCase(timeStr), <<"A", "M">>) /\ h1 = 12 THEN 0 ELSE h1
  IN  IF ~timeMatch.ok THEN NULL
      ELSE padStart2(toString(hours)) \o <<":">> \o padStart2(toString(minutes))

timeToMinutes(timeStr) ==
  LET parts == split(timeStr, ":")
  IN  parseInt(parts[1]) * 60 + parseInt(parts[2])

\* a window test that leaves the end of the window out
isTimeInWindowEndExcluded(timeStr, windowStart, windowEnd) ==
  LET timeMinutes == timeToMinutes(timeStr)
      startMinutes == timeToMinutes(windowStart)
      endMinutes == timeToMinutes(windowEnd)
  IN  timeMinutes >= startMinutes /\ timeMinutes < endMinutes

\* a window test that reads a start after the end as a window over midnight
isTimeInWindowWrapping(timeStr, windowStart, windowEnd) ==
  LET timeMinutes == timeToMinutes(timeStr)
      startMinutes == timeToMinutes(windowStart)
      endMinutes == timeToMinutes(windowEnd)
  IN  IF startMinutes <= endMinutes
        THEN timeMinutes >= startMinutes /\ timeMinutes <= endMinutes
        ELSE timeMinutes >= startMinutes \/ timeMinutes <= endMinutes

isTimeInWindow(timeStr, windowStart, windowEnd) ==
  LET timeMinutes == timeToMinutes(timeStr)
      startMinutes == timeToMinutes(windowStart)
      endMinutes == timeToMinutes(windowEnd)
  IN  timeMinutes >= startMinutes /\ timeMinutes <= endMinutes

(***************************************************************************)
(* Parsed JSON values.  A payload is a heap: a sequence of nodes, node 1   *)
(* the root, composite nodes naming their children by index.  An object    *)
(* keeps its entries in insertion order, as Object.entries returns them.   *)
(***************************************************************************)

Obj(ents) == [kind |-> "obj", ents |-> ents, items |-> <<>>, s |-> <<>>]

Arr(items) == [kind |-> "arr", ents |-> <<>>, items |-> items, s |-> <<>>]

Str(s) == [kind |-> "str", ents |-> <<>>, items |-> <<>>, s |-> s]

Num(digits) == [kind |-> "num", ents |-> <<>>, items |-> <<>>, s |-> digits]

Null == [kind |-> "null", ents |-> <<>>, items |-> <<>>, s |-> <<>>]

\* typeof v === 'object' (true of null and of arrays)
typeofObject(n) == n.kind \in {"obj", "arr", "null"}

\* Object.entries(v): the entries of an object, the index/element pairs of an array
entries(n) ==
  IF n.kind = "arr"
    THEN [i \in DOMAIN n.items |-> [k |-> toString(i - 1), v |-> n.items[i]]]
    ELSE n.ents

\* concatenation of a sequence of strings with a separator
RECURSIVE join(_, _)
join(parts, sep) ==
  IF parts = <<>> THEN <<>>
  ELSE IF Len(parts) = 1 THEN parts[1]
  ELSE parts[1] \o sep \o join(Tail(parts), sep)

\* JSON.stringify(json) without indentation
RECURSIVE stringify(_, _)
stringify(heap, id) ==
  LET n == heap[id]
  IN  CASE n.kind = "str" -> <<"\"">> \o n.s \o <<"\"">>
        [] n.kind = "num" -> n.s
        [] n.kind = "null" -> <<"n", "u", "l", "l">>
        [] n.kind = "arr" ->
             <<"[">> \o join([i \in DOMAIN n.items |-> stringify(heap, n.items[i])], <<",">>)
                     \o <<"]">>
        [] n.kind = "obj" ->
             <<"{">> \o join([i \in DOMAIN n.ents |->
                               <<"\"">> \o n.ents[i].k \o <<"\"", ":">>
                                        \o stringify(heap, n.ents[i].v)], <<",">>)
                     \o <<"}">>

\* String(value)
RECURSIVE String(_, _)
String(heap, id) ==
  LET n == heap[id]
  IN  CASE n.kind \in {"str", "num"} -> n.s
        [] n.kind = "null" -> <<"n", "u", "l", "l">>
        [] n.kind = "obj" ->
             <<"[", "o", "b", "j", "e", "c", "t", " ", "O", "b", "j", "e", "c", "t", "]">>
        [] n.kind = "arr" ->
             join([i \in DOMAIN n.items |->
                     IF heap[n.items[i]].kind = "null" THEN <<>>
                     ELSE String(heap, n.items[i])], <<",">>)

\* concatenation of a sequence of sequences
RECURSIVE concat(_)
concat(parts) == IF parts = <<>> THEN <<>> ELSE parts[1] \o concat(Tail(parts))

(***************************************************************************)
(* extractTimesFromJson of check.js: every string under a time-like key    *)
(* or in an array, whatever date the payload is about                      *)
(***************************************************************************)

timeFields ==
  << <<"t", "i", "m", "e">>,
     <<"s", "t", "a", "r", "t", "T", "i", "m", "e">>,
     <<"s", "t", "a", "r", "t", "_", "t", "i", "m", "e">>,
     <<"s", "l", "o", "t">>,
     <<"a", "v", "a", "i", "l", "a", "b", "i", "l", "i", "t", "y">>,
     <<"r", "e", "s", "e", "r", "v", "a", "t", "i", "o", "n", "T", "i", "m", "e">> >>

RECURSIVE extractTimesFromJsonPlain(_, _)
extractTimesFromJsonPlain(heap, id) ==
  LET json == heap[id]
      ofEntry(e) ==
        LET value == heap[e.v]
            lowerKey == toLowerCase(e.k)
            asTimeField ==
              IF /\ someIncludes(lowerKey, timeFields)
                 /\ value.kind = "str" /\ hasTimePattern(value.s)
                THEN <<value.s>> ELSE <<>>
            ofItem(item) ==
              IF typeofObject(heap[item]) THEN extractTimesFromJsonPlain(heap, item)
              ELSE IF heap[item].kind = "str" /\ hasTimePattern(heap[item].s)
                THEN <<heap[item].s>>
              ELSE <<>>
            asArray ==
              IF value.kind = "arr"
                THEN concat([i \in DOMAIN value.items |-> ofItem(value.items[i])])
                ELSE <<>>
            asObject ==
              IF value.kind \in {"obj", "arr"}
                THEN extractTimesFromJsonPlain(heap, e.v) ELSE <<>>
        IN  asTimeField \o asArray \o asObject
  IN  IF json.kind \notin {"obj", "arr"} THEN <<>>
      ELSE concat([i \in DOMAIN entries(json) |-> ofEntry(entries(json)[i])])

(***************************************************************************)
(* extractTimesFromJson of part_001 (and part_000): the same walk, a time  *)
(* kept only under a mapping confirmed for the selected date               *)
(***************************************************************************)

dateFields ==
  << <<"d", "a", "t", "e">>,
     <<"b", "o", "o", "k", "i", "n", "g", "D", "a", "t", "e">>,
     <<"r", "e", "s", "e", "r", "v", "a", "t", "i", "o", "n", "D", "a", "t", "e">>,
     <<"d", "a", "y">>,
     <<"s", "e", "l", "e", "c", "t", "e", "d", "D", "a", "t", "e">> >>

\* the three spellings of the selected date that the source compares with
dateStr(selectedDate) ==
  LET p == split(selectedDate, "-")
  IN  toString(parseInt(p[1])) \o <<"-">> \o padStart2(toString(parseInt(p[2])))
        \o <<"-">> \o padStart2(toString(parseInt(p[3])))

dateStrAlt(selectedDate) ==
  LET p == split(selectedDate, "-")
  IN  toString(parseInt(p[2])) \o <<"/">> \o toString(parseInt(p[3]))
        \o <<"/">> \o toString(parseInt(p[1]))

dateStrAlt2(selectedDate) ==
  LET p == split(selectedDate, "-")
  IN  toString(parseInt(p[3])) \o <<"/">> \o toString(parseInt(p[2]))
        \o <<"/">> \o toString(parseInt(p[1]))

\* a date test that looks at the first key of the mapping only
ownDateMatchesFirstKey(heap, id, selectedDate) ==
  \E i \in DOMAIN entries(heap[id]) :
    LET e == entries(heap[id])[i]
        valueStr == String(heap, e.v)
    IN  /\ i = 1
        /\ someIncludes(toLowerCase(e.k), dateFields)
        /\ \/ includes(valueStr, dateStr(selectedDate))
           \/ includes(valueStr, dateStrAlt(selectedDate))
           \/ includes(valueStr, dateStrAlt2(selectedDate))

\* the first loop of extractTimesFromJson: has this mapping a date field
\* whose value names the selected date
ownDateMatches(heap, id, selectedDate) ==
  \E i \in DOMAIN entries(heap[id]) :
    LET e == entries(heap[id])[i]
        valueStr == String(heap, e.v)
    IN  /\ someIncludes(toLowerCase(e.k), dateFields)
        /\ \/ includes(valueStr, dateStr(selectedDate))
           \/ includes(valueStr, dateStrAlt(selectedDate))
           \/ includes(valueStr, dateStrAlt2(selectedDate))

\* the frames of extractTimesFromJson the call stack holds
MaxStack == 6

\* the mark a RangeError (Maximum call stack size exceeded) leaves in the
\* list of a call that did not return
RangeError == <<"RangeError">>

\* extractTimesFromJson as the depth-th frame of its own recursion
RECURSIVE extractTimesFromJsonStack(_, _, _, _, _)
extractTimesFromJsonStack(heap, id, selectedDate, parentDateMatches, depth) ==
  LET json == heap[id]
      dateMatches == parentDateMatches \/ ownDateMatches(heap, id, selectedDate)
      ofEntry(e) ==
        LET value == heap[e.v]
            lowerKey == toLowerCase(e.k)
            asTimeField ==
              IF /\ someIncludes(lowerKey, timeFields)
                 /\ value.kind = "str" /\ hasTimePattern(value.s)
                 /\ dateMatches
                THEN <<value.s>> ELSE <<>>
            ofItem(item) ==
              IF typeofObject(heap[item])
                THEN extractTimesFromJsonStack(heap, item, selectedDate, dateMatches, depth + 1)
              ELSE IF heap[item].kind = "str" /\ hasTimePattern(heap[item].s) /\ dateMatches
                THEN <<heap[item].s>>
              ELSE <<>>
            asArray ==
              IF value.kind = "arr"
                THEN concat([i \in DOMAIN value.items |-> ofItem(value.items[i])])
                ELSE <<>>
            asObject ==
              IF value.kind = "obj"
                THEN extractTimesFromJsonStack(heap, e.v, selectedDate, dateMatches, depth + 1)
                ELSE <<>>
        IN  asTimeField \o asArray \o asObject
  IN  IF depth > MaxStack THEN <<RangeError>>
      ELSE IF json.kind \notin {"obj", "arr"} THEN <<>>
      ELSE concat([i \in DOMAIN entries(json) |-> ofEntry(entries(json)[i])])

\* extractTimesFromJson(json, selectedDate, times, parentDateMatches) called
\* from outside: the list returned, or the RangeError mark in it
extractTimesFromJson(heap, id, selectedDate, parentDateMatches) ==
  extractTimesFromJsonStack(heap, id, selectedDate, parentDateMatches, 1)

(***************************************************************************)
(* extractTimes and hasTimesForDate of part_000: a set of normalized times *)
(* from every string of a payload that names the selected date anywhere    *)
(***************************************************************************)

timeKeys ==
  << <<"t", "i", "m", "e">>,
     <<"t", "i", "m", "e", "s">>,
     <<"s", "l", "o", "t", "s">>,
     <<"a", "v", "a", "i", "l", "a", "b", "l", "e", "_", "t", "i", "m", "e", "s">>,
     <<"s", "t", "a", "r", "t", "_", "t", "i", "m", "e">>,
     <<"s", "t", "a", "r", "t", "T", "i", "m", "e">>,
     <<"s", "l", "o", "t">>,
     <<"a", "v", "a", "i", "l", "a", "b", "i", "l", "i", "t", "y">>,
     <<"r", "e", "s", "e", "r", "v", "a", "t", "i", "o", "n", "T", "i", "m", "e">> >>

\* /\b(\d{1,2}):(\d{2})\b/ anchored at position i
MatchBoundedTimeAt(s, i) ==
  LET m == MatchTimeAt(s, i)
  IN  IF /\ m.ok
         /\ (i = 1 \/ ~IsWordChar(s[i - 1]))
         /\ (m.end = Len(s) \/ ~IsWordChar(s[m.end + 1]))
        THEN m
        ELSE [ok |-> FALSE, h |-> <<>>, m |-> <<>>, end |-> 0]

\* data.match(/\b(\d{1,2}):(\d{2})\b/): the leftmost match
MatchBoundedTime(s) ==
  IF \E i \in DOMAIN s : MatchBoundedTimeAt(s, i).ok
    THEN MatchBoundedTimeAt(s, CHOOSE i \in DOMAIN s :
                                 /\ MatchBoundedTimeAt(s, i).ok
                                 /\ \A j \in 1..(i - 1) : ~MatchBoundedTimeAt(s, j).ok)
    ELSE [ok |-> FALSE, h |-> <<>>, m |-> <<>>, end |-> 0]

\* /\d{4}-\d{2}-\d{2}T(\d{2}):(\d{2}):/ anchored at position i
MatchIsoAt(s, i) ==
  IF /\ i + 16 <= Len(s)
     /\ \A k \in {0, 1, 2, 3, 5, 6, 8, 9, 11, 12, 14, 15} : IsDigit(s[i + k])
     /\ s[i + 4] = "-" /\ s[i + 7] = "-" /\ s[i + 10] = "T"
     /\ s[i + 13] = ":" /\ s[i + 16] = ":"
    THEN [ok |-> TRUE, h |-> SubSeq(s, i + 11, i + 12), m |-> SubSeq(s, i + 14, i + 15),
          end |-> i + 16]
    ELSE [ok |-> FALSE, h |-> <<>>, m |-> <<>>, end |-> 0]

\* data.match(/\d{4}-\d{2}-\d{2}T(\d{2}):(\d{2}):/): the leftmost match
MatchIso(s) ==
  IF \E i \in DOMAIN s : MatchIsoAt(s, i).ok
    THEN MatchIsoAt(s, CHOOSE i \in DOMAIN s :
                         /\ MatchIsoAt(s, i).ok
                         /\ \A j \in 1..(i - 1) : ~MatchIsoAt(s, j).ok)
    ELSE [ok |-> FALSE, h |-> <<>>, m |-> <<>>, end |-> 0]

\* the string case of extractTimes: the times one string adds to the set
extractTimesOfString(data) ==
  LET timeMatch == MatchBoundedTime(data)
      hours == parseInt(timeMatch.h)
      minutes == parseInt(timeMatch.m)
      isoMatch == MatchIso(data)
  IN  (IF timeMatch.ok /\ hours >= 0 /\ hours < 24 /\ minutes >= 0 /\ minutes < 60
         THEN {padStart2(toString(hours)) \o <<":">> \o padStart2(toString(minutes))}
         ELSE {})
      \cup
      (IF isoMatch.ok
         THEN {padStart2(toString(parseInt(isoMatch.h))) \o <<":">>
                 \o padStart2(toString(parseInt(isoMatch.m)))}
         ELSE {})

\* extractTimes(data, times, visited): acc carries the shared times set and
\* the shared visited set through the walk (and the order of the walk)
RECURSIVE extractTimesAcc(_, _, _)
RECURSIVE extractTimesItems(_, _, _, _)
RECURSIVE extractTimesEntries(_, _, _, _)
extractTimesAcc(heap, id, acc) ==
  LET data == heap[id]
  IN  IF data.kind = "null" THEN acc
      ELSE IF data.kind \in {"obj", "arr"} /\ id \in acc.visited THEN acc
      ELSE IF data.kind = "arr"
        THEN extractTimesItems(heap, data.items, 1,
                               [acc EXCEPT !.visited = @ \cup {id}, !.walked = Append(@, id)])
      ELSE IF data.kind = "obj"
        THEN extractTimesEntries(heap, data.ents, 1,
                                 [acc EXCEPT !.visited = @ \cup {id}, !.walked = Append(@, id)])
      ELSE IF data.kind = "str"
        THEN [acc EXCEPT !.times = @ \cup extractTimesOfString(data.s)]
      ELSE acc

\* data.forEach(item => extractTimes(item, times, visited))
extractTimesItems(heap, items, i, acc) ==
  IF i > Len(items) THEN acc
  ELSE extractTimesItems(heap, items, i + 1, extractTimesAcc(heap, items[i], acc))

\* for (const [key, value] of Object.entries(data)): a time-like key has
\* its value walked twice
extractTimesEntries(heap, ents, i, acc) ==
  IF i > Len(ents) THEN acc
  ELSE LET lowerKey == toLowerCase(ents[i].k)
           acc1 == IF \E j \in DOMAIN timeKeys : includes(lowerKey, toLowerCase(timeKeys[j]))
                     THEN extractTimesAcc(heap, ents[i].v, acc)
                     ELSE acc
       IN  extractTimesEntries(heap, ents, i + 1, extractTimesAcc(heap, ents[i].v, acc1))

extractTimes(heap, id) ==
  extractTimesAcc(heap, id, [times |-> {}, visited |-> {}, walked |-> <<>>]).times

\* the composites extractTimes walks into, in the order of the walk
extractTimesWalk(heap, id) ==
  extractTimesAcc(heap, id, [times |-> {}, visited |-> {}, walked |-> <<>>]).walked

monthAbbrevs ==
  << <<"j", "a", "n">>, <<"f", "e", "b">>, <<"m", "a", "r">>, <<"a", "p", "r">>,
     <<"m", "a", "y">>, <<"j", "u", "n">>, <<"j", "u", "l">>, <<"a", "u", "g">>,
     <<"s", "e", "p">>, <<"o", "c", "t">>, <<"n", "o", "v">>, <<"d", "e", "c">> >>

hasTimesForDate(heap, selectedDate) ==
  LET json == heap[1]
      jsonStr == toLowerCase(stringify(heap, 1))
      p == split(selectedDate, "-")
      month == parseInt(p[2])
      day == parseInt(p[3])
  IN  /\ json.kind \in {"obj", "arr"}
      /\ \/ includes(jsonStr, dateStr(selectedDate))
         \/ includes(jsonStr, dateStrAlt(selectedDate))
         \/ includes(jsonStr, dateStrAlt2(selectedDate))
         \/ includes(jsonStr, toString(day) \o <<" ">> \o monthAbbrevs[month])

(***************************************************************************)
(* The notification ledger (state.json) and the values loadState returns   *)
(***************************************************************************)

\* { notifiedTimes: [...] }
Ledger(keys) == [kind |-> "list", keys |-> keys, text |-> <<>>]

\* a parsed value without a notifiedTimes member: {}, [], null, 42
NoLedger == [kind |-> "undef", keys |-> <<>>, text |-> <<>>]

\* { notifiedTimes: "..." }: the member is a string, not a list
TextLedger(text) == [kind |-> "string", keys |-> <<>>, text |-> text]

\* the value of `state` before loadState has run in an attempt
Unloaded == [kind |-> "unloaded", keys |-> <<>>, text |-> <<>>]

\* the content of STATE_FILE: absent, unreadable or not JSON, or JSON text
\* (kept as the value JSON.parse gives for it)
MissingFile == [kind |-> "missing", value |-> Unloaded]

CorruptFile == [kind |-> "corrupt", value |-> Unloaded]

JsonFile(value) == [kind |-> "json", value |-> value]

loadState(f) ==
  IF f.kind = "json" THEN f.value
  ELSE Ledger(<<>>)

\* saveState(state): writeFileSync either writes the file or throws, and
\* the exception is swallowed
saveState(f, st, written) == IF written THEN JsonFile(st) ELSE f

\* a lookup that compares the first key of the list only
notifiedIncludesFirstOnly(st, timeKey) ==
  IF st.kind = "string" THEN includes(st.text, timeKey)
  ELSE st.keys # <<>> /\ st.keys[1] = timeKey

\* a lookup that compares the time of the key and not its date
notifiedIncludesTimeOnly(st, timeKey) ==
  IF st.kind = "string" THEN includes(st.text, timeKey)
  ELSE \E i \in DOMAIN st.keys :
         SubSeq(st.keys[i], Len(st.keys[i]) - 4, Len(st.keys[i]))
           = SubSeq(timeKey, Len(timeKey) - 4, Len(timeKey))

\* state.notifiedTimes.includes(timeKey), for a list and for a string
notifiedIncludes(st, timeKey) ==
  IF st.kind = "string" THEN includes(st.text, timeKey)
  ELSE \E i \in DOMAIN st.keys : st.keys[i] = timeKey

\* `${DATE}_${formattedTime}`
timeKeyOf(date, formattedTime) == date \o <<"_">> \o formattedTime

\* [...new Set(list)]: first occurrences, in order
RECURSIVE unique(_)
unique(list) ==
  IF list = <<>> THEN <<>>
  ELSE LET init == unique(SubSeq(list, 1, Len(list) - 1))
           last == list[Len(list)]
       IN  IF \E i \in DOMAIN init : init[i] = last THEN init ELSE Append(init, last)

\* UTF-16 code unit order of the characters that occur in a time
CharOrder == <<"0", "1", "2", "3", "4", "5", "6", "7", "8", "9", ":">>

charCode(c) == CHOOSE i \in DOMAIN CharOrder : CharOrder[i] = c

\* a < b in the default order of Array.prototype.sort
RECURSIVE lexLess(_, _)
lexLess(a, b) ==
  IF b = <<>> THEN FALSE
  ELSE IF a = <<>> THEN TRUE
  ELSE IF a[1] # b[1] THEN charCode(a[1]) < charCode(b[1])
  ELSE lexLess(Tail(a), Tail(b))

\* Array.from(set).sort()
RECURSIVE sorted(_)
sorted(set) ==
  IF set = {} THEN <<>>
  ELSE LET least == CHOOSE x \in set : \A y \in set \ {x} : lexLess(x, y)
       IN  <<least>> \o sorted(set \ {least})

\* Array.prototype.filter
RECURSIVE filterInWindow(_, _, _)
filterInWindow(list, windowStart, windowEnd) ==
  IF list = <<>> THEN <<>>
  ELSE (IF isTimeInWindow(list[1], windowStart, windowEnd) THEN <<list[1]>> ELSE <<>>)
         \o filterInWindow(Tail(list), windowStart, windowEnd)

(***************************************************************************)
(* Inputs: configurations, response payloads, DOM texts, ledger files      *)
(***************************************************************************)

D15 == <<"2", "0", "2", "4", "-", "0", "3", "-", "1", "5">>

D16 == <<"2", "0", "2", "4", "-", "0", "3", "-", "1", "6">>

T1800 == <<"1", "8", ":", "0", "0">>

T1930 == <<"1", "9", ":", "3", "0">>

T2100 == <<"2", "1", ":", "0", "0">>

T2200 == <<"2", "2", ":", "0", "0">>

\* an ISO date-time whose minute field is 75
Iso1975 == D15 \o <<"T", "1", "9", ":", "7", "5", ":", "0", "0">>

kDate == <<"d", "a", "t", "e">>

kSlots == <<"s", "l", "o", "t", "s">>

kTime == <<"t", "i", "m", "e">>

kTimeSlots == <<"t", "i", "m", "e", "s", "l", "o", "t", "s">>

\* {"date":"2024-03-15","slots":[{"time":"19:30"},{"time":"22:00"}]}
PayloadTarget ==
  << Obj(<<[k |-> kDate, v |-> 2], [k |-> kSlots, v |-> 3]>>),
     Str(D15), Arr(<<4, 5>>),
     Obj(<<[k |-> kTime, v |-> 6]>>), Obj(<<[k |-> kTime, v |-> 7]>>),
     Str(T1930), Str(T2200) >>

\* {"date":"2024-03-16","slots":[{"time":"19:30"}]}
PayloadOtherDate ==
  << Obj(<<[k |-> kDate, v |-> 2], [k |-> kSlots, v |-> 3]>>),
     Str(D16), Arr(<<4>>), Obj(<<[k |-> kTime, v |-> 5]>>), Str(T1930) >>

\* {"slots":[{"date":"2024-03-16","time":"18:00"},{"date":"2024-03-15","time":"21:00"}]}
PayloadSiblings ==
  << Obj(<<[k |-> kSlots, v |-> 2]>>), Arr(<<3, 4>>),
     Obj(<<[k |-> kDate, v |-> 5], [k |-> kTime, v |-> 6]>>),
     Obj(<<[k |-> kDate, v |-> 7], [k |-> kTime, v |-> 8]>>),
     Str(D16), Str(T1800), Str(D15), Str(T2100) >>

\* {"date":"2024-03-15","timeslots":["7:30 PM","19:30:00"]}
PayloadRawForms ==
  << Obj(<<[k |-> kDate, v |-> 2], [k |-> kTimeSlots, v |-> 3]>>),
     Str(D15), Arr(<<4, 5>>),
     Str(<<"7", ":", "3", "0", " ", "P", "M">>), Str(<<"1", "9", ":", "3", "0", ":", "0", "0">>) >>

\* a response whose body is not JSON: response.json().catch(() => null)
PayloadNotJson == <<Null>>

\* a time field that holds no time
Tbd == <<"T", "B", "D">>

\* {"date":"2024-03-15","slots":[{"time":"21:00"},{"time":"TBD"},{"time":"18:00"}]}
PayloadDescending ==
  << Obj(<<[k |-> kDate, v |-> 2], [k |-> kSlots, v |-> 3]>>),
     Str(D15), Arr(<<4, 5, 6>>),
     Obj(<<[k |-> kTime, v |-> 7]>>), Obj(<<[k |-> kTime, v |-> 8]>>),
     Obj(<<[k |-> kTime, v |-> 9]>>),
     Str(T2100), Str(Tbd), Str(T1800) >>

\* {"date":"2024-03-15","slots":[{"time":"2024-03-15T19:75:00"}]}
PayloadOutOfRange ==
  << Obj(<<[k |-> kDate, v |-> 2], [k |-> kSlots, v |-> 3]>>),
     Str(D15), Arr(<<4>>), Obj(<<[k |-> kTime, v |-> 5]>>), Str(Iso1975) >>

Payloads ==
  << PayloadTarget, PayloadOtherDate, PayloadSiblings, PayloadRawForms, PayloadNotJson,
     PayloadDescending, PayloadOutOfRange >>

\* the texts extractTimesFromDOM returns from the rendered page
DomTimeLists == {<<>>, <<<<"8", ":", "0", "0", " ", "P", "M">>>>}

WindowChoices == {<<T1800, T2100>>, <<T2100, T1800>>}

\* the dates a run may be configured for
Dates == {D15}

\* the other values of the environment
Url == <<"h", "t", "t", "p", "s", ":", "/", "/", "r">>

Party == <<"2">>

UserKey == <<"u", "k">>

AppToken == <<"a", "t">>

\* the variables the environment leaves unset or empty: none, or one of
\* the seven
Unsets ==
  {{}} \cup {{key} : key \in {"BOOKING_URL", "PARTY_SIZE", "DATE", "WINDOW_START",
                              "WINDOW_END", "PUSHOVER_USER_KEY", "PUSHOVER_APP_TOKEN"}}

\* process.env[key]
Env(key, unset, value) == IF key \in unset THEN NULL ELSE value

Variants == {"check", "part_001", "part_000"}

InitialFiles ==
  { MissingFile, CorruptFile, JsonFile(NoLedger),
    JsonFile(TextLedger(timeKeyOf(D15, T2200))),
    JsonFile(Ledger(<<>>)), JsonFile(Ledger(<<timeKeyOf(D15, T1930), timeKeyOf(D16, T2100)>>)) }

\* process invocations (scheduled runs) followed
MaxRuns == 2

\* attempts of one invocation that are counted; the count stays at this value
MaxAttempts == 3

\* responses delivered to the response handler in one attempt
MaxResponses == 1

\* successful sends counted per key; the count stays at this value
MaxSends == 2

\* relevantUrls.length < 50
MaxRelevantUrls == 50

(***************************************************************************)
(* State                                                                   *)
(***************************************************************************)

VARIABLES
  variant,            \* which script of the repository runs
  BOOKING_URL, PARTY_SIZE, DATE, WINDOW_START, WINDOW_END,   \* process.env
  PUSHOVER_USER_KEY, PUSHOVER_APP_TOKEN,
  given,              \* the function called on its own, and its argument
  returned,           \* what that call returned
  elapsed,            \* seconds of Date.now() - startTime in the monitoring loop (part_000)
  file,               \* the content of STATE_FILE
  run,                \* the number of the process invocation
  attempt,            \* the number of the checkAvailability call in this invocation
  pc,                 \* where the current checkAvailability call stands
  state,              \* const state = loadState()
  seenEndpoints,      \* seenEndpoints.length (check.js, part_001)
  relevantUrls,       \* relevantUrls.length (part_000)
  pending,            \* responses whose response.json() has not resolved yet
  availableTimes,     \* check.js, part_001: raw time strings collected
  allExtractedTimes,  \* part_000: the set of normalized times collected
  jsonResponses,      \* part_000: the payloads collected
  queue,              \* uniqueTimes (check.js, part_001) / timesInWindow (part_000)
  idx,                \* the position of the for-of loop in queue
  cur,                \* the formatted time whose sendNotification is awaited
  okCount,            \* history: successful sends per key, over all invocations
  runSent,            \* history: keys sent successfully in this invocation
  failedKeys,         \* history: keys for which a send failed
  skipped,            \* history: keys skipped as already notified in this invocation
  outOfWindow,        \* history: times this attempt rejected by the window test
  parsedIds,          \* history: payloads whose body this attempt has parsed
  domTimes,           \* history: the DOM texts this attempt added
  hasNoAvailability,  \* part_001: const hasNoAvailability = await checkNoAvailability(...)
  called,             \* history: keys sendNotification was called for in this attempt
  saveFailed,         \* history: some saveState did not write the file
  prior               \* history: the value loadState returned to this attempt

config == <<variant, BOOKING_URL, PARTY_SIZE, DATE, WINDOW_START, WINDOW_END,
           PUSHOVER_USER_KEY, PUSHOVER_APP_TOKEN, given, returned, elapsed>>

\* const requiredVars = { BOOKING_URL, ..., PUSHOVER_APP_TOKEN }
requiredVars ==
  [ BOOKING_URL |-> BOOKING_URL, PARTY_SIZE |-> PARTY_SIZE, DATE |-> DATE,
    WINDOW_START |-> WINDOW_START, WINDOW_END |-> WINDOW_END,
    PUSHOVER_USER_KEY |-> PUSHOVER_USER_KEY, PUSHOVER_APP_TOKEN |-> PUSHOVER_APP_TOKEN ]

\* a validation that finds every variable set
missingVarsNone == {}

\* Object.entries(requiredVars).filter(([key, value]) => !value).map(([key]) => key)
\* (an unset variable and an empty one are both falsy)
missingVars == {key \in DOMAIN requiredVars : requiredVars[key] = NULL}

collected == <<seenEndpoints, relevantUrls, pending, availableTimes, allExtractedTimes,
               jsonResponses, parsedIds, domTimes, hasNoAvailability>>

loop == <<queue, idx, cur>>

history == <<okCount, runSent, failedKeys, skipped, outOfWindow, called, saveFailed>>

vars == <<config, file, run, attempt, pc, state, prior, collected, loop, history>>

\* the keys a history function counts
Counted(f) == DOMAIN f

Count(f, k) == IF k \in DOMAIN f THEN f[k] ELSE 0

\* keys already in the ledger file count as notified once
InitialCount(f) ==
  IF f.kind = "json" /\ f.value.kind = "list"
    THEN [k \in Range(f.value.keys) |-> 1]
    ELSE [k \in {} |-> 0]

\* the start of the first process, for a set of window settings and of
\* ledger files it may find
InitFrom(windows, files) ==
  /\ variant \in Variants
  /\ \E unset \in Unsets :
       /\ BOOKING_URL = Env("BOOKING_URL", unset, Url)
       /\ PARTY_SIZE = Env("PARTY_SIZE", unset, Party)
       /\ PUSHOVER_USER_KEY = Env("PUSHOVER_USER_KEY", unset, UserKey)
       /\ PUSHOVER_APP_TOKEN = Env("PUSHOVER_APP_TOKEN", unset, AppToken)
       /\ \E d \in Dates : DATE = Env("DATE", unset, d)
       /\ \E w \in windows :
            /\ WINDOW_START = Env("WINDOW_START", unset, w[1])
            /\ WINDOW_END = Env("WINDOW_END", unset, w[2])
  /\ file \in files
  /\ run = 1
  /\ attempt = 1
  /\ pc = "Start"
  /\ state = Unloaded
  /\ prior = Unloaded
  /\ seenEndpoints = 0
  /\ relevantUrls = 0
  /\ pending = <<>>
  /\ availableTimes = <<>>
  /\ allExtractedTimes = {}
  /\ jsonResponses = <<>>
  /\ queue = <<>>
  /\ idx = 0
  /\ cur = NULL
  /\ okCount = InitialCount(file)
  /\ runSent = {}
  /\ failedKeys = {}
  /\ skipped = {}
  /\ outOfWindow = {}
  /\ parsedIds = {}
  /\ domTimes = <<>>
  /\ hasNoAvailability = FALSE
  /\ called = {}
  /\ saveFailed = FALSE

\* no function is called on its own
NoCall == [fn |-> "none", str |-> <<>>, heap |-> <<>>]

NoReturn ==
  [done |-> FALSE, threw |-> FALSE, str |-> <<>>, list |-> <<>>, set |-> {}, walked |-> <<>>]

NoCalls == given = NoCall /\ returned = NoReturn /\ elapsed = 0

Init == InitFrom(WindowChoices, InitialFiles) /\ NoCalls

\* what a new call of checkAvailability starts from: its locals are fresh
FreshAttempt ==
  /\ state' = Unloaded
  /\ hasNoAvailability' = FALSE
  /\ prior' = Unloaded
  /\ seenEndpoints' = 0
  /\ relevantUrls' = 0
  /\ pending' = <<>>
  /\ availableTimes' = <<>>
  /\ allExtractedTimes' = {}
  /\ jsonResponses' = <<>>
  /\ queue' = <<>>
  /\ idx' = 0
  /\ cur' = NULL
  /\ outOfWindow' = {}
  /\ parsedIds' = {}
  /\ domTimes' = <<>>
  /\ called' = {}

\* the catch block: close the browser, wait, return checkAvailability()
Retry ==
  /\ pc' = "Start"
  /\ attempt' = IF attempt < MaxAttempts THEN attempt + 1 ELSE attempt
  /\ FreshAttempt
  /\ UNCHANGED <<config, file, run>>

(***************************************************************************)
(* checkAvailability: start, page load, the response handler               *)
(***************************************************************************)

runHistory == <<okCount, runSent, failedKeys, skipped, saveFailed>>

\* if (missingVars.length > 0) { ...; process.exit(1); } at the load of the
\* script, before checkAvailability is called
ConfigInvalid ==
  /\ pc = "Start"
  /\ missingVars # {}
  /\ pc' = "Fatal"
  /\ UNCHANGED <<config, file, run, attempt, state, prior, collected, loop, history>>

\* const state = loadState(); the browser launches; the run enters try
StartAttempt ==
  /\ pc = "Start"
  /\ missingVars = {}
  /\ state' = loadState(file)
  /\ prior' = loadState(file)
  /\ pc' = "Loading"
  /\ UNCHANGED <<config, file, run, attempt, collected, loop, history>>

\* chromium.launch rejects: it stands before the try, so no catch block
\* runs and the rejection reaches the caller of the first checkAvailability
LaunchFails ==
  /\ pc = "Start"
  /\ missingVars = {}
  /\ state' = loadState(file)
  /\ prior' = loadState(file)
  /\ pc' = "Fatal"
  /\ UNCHANGED <<config, file, run, attempt, collected, loop, history>>

\* await page.goto(BOOKING_URL, ...) resolves
GotoOk ==
  /\ pc = "Loading"
  /\ pc' = "Observing"
  /\ UNCHANGED <<config, file, run, attempt, state, prior, collected, loop, history>>

\* await page.goto(BOOKING_URL, ...) rejects (timeout): the catch block
GotoFails ==
  /\ pc = "Loading"
  /\ Retry
  /\ UNCHANGED runHistory

\* a later await of the try block rejects (page.waitForTimeout on a page
\* that crashed or closed): the catch block
ObserveFails ==
  /\ pc = "Observing"
  /\ Retry
  /\ UNCHANGED runHistory

\* the page is open and its response handler can run
HandlerLive == pc \in {"Loading", "Observing", "DomFallback"}

\* page.on('response', ...) up to `await response.json()`, for a response
\* whose URL the handler accepts
ResponseArrives(p) ==
  /\ HandlerLive
  /\ IF variant = "part_000"
       THEN /\ relevantUrls < MaxResponses
            /\ relevantUrls < MaxRelevantUrls
            /\ relevantUrls' = relevantUrls + 1
            /\ UNCHANGED seenEndpoints
       ELSE /\ seenEndpoints < MaxResponses
            /\ seenEndpoints' = seenEndpoints + 1
            /\ UNCHANGED relevantUrls
  /\ pending' = Append(pending, p)
  /\ UNCHANGED <<config, file, run, attempt, pc, state, prior, availableTimes,
                 allExtractedTimes, jsonResponses, parsedIds, domTimes, hasNoAvailability, loop, history>>

\* jsonStr.includes('time') && (jsonStr.includes('available') ||
\*   jsonStr.includes('slot') || jsonStr.includes('reservation'))
looksLikeReservationData(heap) ==
  LET jsonStr == toLowerCase(stringify(heap, 1))
  IN  /\ includes(jsonStr, <<"t", "i", "m", "e">>)
      /\ \/ includes(jsonStr, <<"a", "v", "a", "i", "l", "a", "b", "l", "e">>)
         \/ includes(jsonStr, <<"s", "l", "o", "t">>)
         \/ includes(jsonStr, <<"r", "e", "s", "e", "r", "v", "a", "t", "i", "o", "n">>)

\* the times the handler of check.js appends to availableTimes
handlerTimesCheck(heap) ==
  IF looksLikeReservationData(heap) THEN extractTimesFromJsonPlain(heap, 1) ELSE <<>>

\* the times the handler of part_001 appends to availableTimes
handlerTimesPart001(heap, selectedDate) ==
  IF looksLikeReservationData(heap)
    THEN extractTimesFromJson(heap, 1, selectedDate, FALSE) ELSE <<>>

\* the times the handler of part_000 adds to allExtractedTimes
handlerTimesPart000(heap, selectedDate) ==
  IF hasTimesForDate(heap, selectedDate) THEN extractTimes(heap, 1) ELSE {}

\* what the handler of each variant makes of each payload the page may
\* deliver: the payloads are fixed, so is what is extracted from them
timesOfCheck == [p \in DOMAIN Payloads |-> handlerTimesCheck(Payloads[p])]

timesOfPart001 ==
  [d \in Dates |-> [p \in DOMAIN Payloads |-> handlerTimesPart001(Payloads[p], d)]]

timesOfPart000 ==
  [d \in Dates |-> [p \in DOMAIN Payloads |-> handlerTimesPart000(Payloads[p], d)]]

\* hasTimesForDate(r.data, d) of each payload
isForDate == [d \in Dates |-> [p \in DOMAIN Payloads |-> hasTimesForDate(Payloads[p], d)]]

\* sequence s without its i-th element
RemoveAt(s, i) == SubSeq(s, 1, i - 1) \o SubSeq(s, i + 1, Len(s))

\* the handler after `await response.json()`: the bodies resolve in any order
ResponseParsed(i) ==
  /\ HandlerLive
  /\ i \in DOMAIN pending
  /\ pending' = RemoveAt(pending, i)
  /\ LET p == pending[i]
         json == Payloads[p]
     IN  IF json[1].kind = "null"
           THEN UNCHANGED <<availableTimes, allExtractedTimes, jsonResponses, parsedIds>>
           ELSE /\ parsedIds' = parsedIds \cup {p}
                /\ CASE variant = "check" ->
                          /\ availableTimes' = availableTimes \o timesOfCheck[p]
                          /\ UNCHANGED <<allExtractedTimes, jsonResponses>>
                     [] variant = "part_001" ->
                          /\ availableTimes' = availableTimes \o timesOfPart001[DATE][p]
                          /\ UNCHANGED <<allExtractedTimes, jsonResponses>>
                     [] variant = "part_000" ->
                          /\ jsonResponses' = Append(jsonResponses, p)
                          /\ allExtractedTimes' =
                               allExtractedTimes \cup timesOfPart000[DATE][p]
                          /\ UNCHANGED availableTimes
  /\ UNCHANGED <<config, file, run, attempt, pc, state, prior, seenEndpoints, relevantUrls,
                 domTimes, hasNoAvailability,
                 loop, history>>

(***************************************************************************)
(* checkAvailability: the end of observation, the DOM fallback, the loop   *)
(***************************************************************************)

\* `if (availableTimes.length > 0) { const uniqueTimes = [...new Set(availableTimes)]`
\* of check.js and part_001, up to the first iteration of the loop
Decide(times) ==
  IF Len(times) > 0
    THEN /\ queue' = unique(times)
         /\ idx' = 1
         /\ pc' = "Notifying"
    ELSE /\ queue' = <<>>
         /\ idx' = 0
         /\ pc' = "Closing"

\* a fallback decision that does not look at the no-availability message
EndObserveIgnoresMessage ==
  /\ pc = "Observing"
  /\ variant \in {"check", "part_001"}
  /\ hasNoAvailability' \in (IF variant = "part_001" THEN BOOLEAN ELSE {FALSE})
  /\ IF availableTimes = <<>>
       THEN /\ pc' = "DomFallback"
            /\ UNCHANGED <<queue, idx>>
       ELSE Decide(availableTimes)
  /\ UNCHANGED <<config, file, run, attempt, state, prior, seenEndpoints, relevantUrls,
                 pending, availableTimes, allExtractedTimes, jsonResponses, parsedIds,
                 domTimes, cur, history>>

\* check.js, part_001: the waits after the page interaction are over;
\* part_001 has looked for a no-availability message (checkNoAvailability)
EndObserve ==
  /\ pc = "Observing"
  /\ variant \in {"check", "part_001"}
  /\ hasNoAvailability' \in (IF variant = "part_001" THEN BOOLEAN ELSE {FALSE})
  /\ IF availableTimes = <<>> /\ ~hasNoAvailability'
       THEN /\ pc' = "DomFallback"
            /\ UNCHANGED <<queue, idx>>
       ELSE Decide(availableTimes)
  /\ UNCHANGED <<config, file, run, attempt, state, prior, seenEndpoints, relevantUrls,
                 pending, availableTimes, allExtractedTimes, jsonResponses, parsedIds,
                 domTimes, cur, history>>

\* what extractTimesFromDOM pushes for an element text that holds a time:
\* check.js the trimmed text, part_001 the matched H:MM alone
domTime(v, text) ==
  IF v = "check" THEN trim(text)
  ELSE LET m == MatchTime(text)
       IN  SubSeq(text, m.end - Len(m.h) - 2, m.end)

\* const domTimes = await extractTimesFromDOM(...); availableTimes.push(...domTimes)
DomFallback ==
  /\ pc = "DomFallback"
  /\ \E texts \in DomTimeLists :
       /\ domTimes' = [i \in DOMAIN texts |-> domTime(variant, texts[i])]
       /\ availableTimes' = availableTimes \o domTimes'
       /\ Decide(availableTimes')
  /\ UNCHANGED <<config, file, run, attempt, state, prior, seenEndpoints, relevantUrls,
                 pending, allExtractedTimes, jsonResponses, parsedIds, hasNoAvailability,
                 cur, history>>

\* jsonResponses.filter(r => hasTimesForDate(r.data, DATE)).length > 0
hasResponsesForDate(responses, selectedDate) ==
  \E i \in DOMAIN responses : isForDate[selectedDate][responses[i]]

\* part_000: the monitoring loop has ended; sort, filter by the window,
\* and enter the loop only with a response for the selected date
EndMonitoring ==
  /\ pc = "Observing"
  /\ variant = "part_000"
  /\ \E extractedTimesArray \in {sorted(allExtractedTimes)} :
     \E timesInWindow \in {filterInWindow(extractedTimesArray, WINDOW_START, WINDOW_END)} :
         /\ outOfWindow' = allExtractedTimes \ Range(timesInWindow)
         /\ IF Len(timesInWindow) > 0 /\ hasResponsesForDate(jsonResponses, DATE)
              THEN /\ queue' = timesInWindow
                   /\ idx' = 1
                   /\ pc' = "Notifying"
              ELSE /\ queue' = <<>>
                   /\ idx' = 0
                   /\ pc' = "Closing"
  /\ UNCHANGED <<config, file, run, attempt, state, prior, collected, cur,
                 okCount, runSent, failedKeys, skipped, called, saveFailed>>

\* the plate emoji that opens the message (one character of the model)
Plate == "U+1F37D"

\* a request body without the date
sendNotificationBodyNoDate(time) ==
  [ token |-> PUSHOVER_APP_TOKEN,
    user |-> PUSHOVER_USER_KEY,
    message |-> <<Plate>> \o <<" ", "T", "a", "b", "l", "e", " ", "a", "v", "a", "i", "l", "a", "b", "l", "e", " ", "a", "t", " ">> \o time \o <<" ", "f", "o", "r", " ">> \o PARTY_SIZE \o <<" ", "p", "e", "o", "p", "l", "e", ".">>,
    title |-> <<"S", "e", "v", "e", "n", "R", "o", "o", "m", "s", " ", "T", "a", "b", "l", "e", " ", "A", "v", "a", "i", "l", "a", "b", "l", "e">>,
    priority |-> 1 ]

\* sendNotification: the body of the POST to the Pushover API
\* `${Plate} Table available at ${time} on ${DATE} for ${PARTY_SIZE} people.`
sendNotificationBody(time) ==
  [ token |-> PUSHOVER_APP_TOKEN,
    user |-> PUSHOVER_USER_KEY,
    message |-> <<Plate>> \o <<" ", "T", "a", "b", "l", "e", " ", "a", "v", "a", "i", "l", "a", "b", "l", "e", " ", "a", "t", " ">>
                  \o time \o <<" ", "o", "n", " ">> \o DATE \o <<" ", "f", "o", "r", " ">>
                  \o PARTY_SIZE \o <<" ", "p", "e", "o", "p", "l", "e", ".">>,
    title |-> <<"S", "e", "v", "e", "n", "R", "o", "o", "m", "s", " ", "T", "a", "b", "l", "e", " ", "A", "v", "a", "i", "l", "a", "b", "l", "e">>,
    priority |-> 1 ]

\* the request in flight while sendNotification(time) is awaited
request == IF pc = "Sending" THEN sendNotificationBody(cur) ELSE NULL

\* the time the loop works on: formatTime(time) in check.js and part_001,
\* the already normalized time in part_000
loopTime(v, time) == IF v = "part_000" THEN time ELSE formatTime(time)

\* the window test inside the loop (part_000 has filtered before the loop)
loopInWindow(v, t, windowStart, windowEnd) ==
  v = "part_000" \/ isTimeInWindow(t, windowStart, windowEnd)

\* one iteration of `for (const time of ...)` up to the await of
\* sendNotification, or the end of the loop
ProcessTime ==
  /\ pc = "Notifying"
  /\ IF idx > Len(queue)
       THEN /\ pc' = "Closing"
            /\ UNCHANGED <<config, file, run, attempt, state, prior, collected, loop, history>>
       ELSE \E t \in {loopTime(variant, queue[idx])} :
            \E timeKey \in {timeKeyOf(DATE, t)} :
                IF t = NULL
                  THEN /\ idx' = idx + 1
                       /\ UNCHANGED <<config, file, run, attempt, pc, state, prior, collected,
                                      queue, cur, history>>
                ELSE IF ~loopInWindow(variant, t, WINDOW_START, WINDOW_END)
                  THEN /\ idx' = idx + 1
                       /\ outOfWindow' = outOfWindow \cup {t}
                       /\ UNCHANGED <<config, file, run, attempt, pc, state, prior, collected,
                                      queue, cur, okCount, runSent, failedKeys, skipped,
                                      called, saveFailed>>
                ELSE IF state.kind = "undef"
                  \* state.notifiedTimes is undefined: TypeError inside the try
                  THEN Retry /\ UNCHANGED runHistory
                ELSE IF notifiedIncludes(state, timeKey)
                  THEN /\ idx' = idx + 1
                       /\ skipped' = skipped \cup {timeKey}
                       /\ UNCHANGED <<config, file, run, attempt, pc, state, prior, collected,
                                      queue, cur, okCount, runSent, failedKeys, outOfWindow,
                                      called, saveFailed>>
                ELSE /\ cur' = t
                     /\ called' = called \cup {timeKey}
                     /\ pc' = "Sending"
                     /\ UNCHANGED <<config, file, run, attempt, state, prior, collected,
                                    queue, idx, okCount, runSent, failedKeys, skipped,
                                    outOfWindow, saveFailed>>

\* a ledger that keeps the newest key alone
markNotifiedAlone(st, timeKey) == Ledger(<<timeKey>>)

\* a push that appends the key twice
markNotifiedTwice(st, timeKey) == Ledger(st.keys \o <<timeKey, timeKey>>)

\* state.notifiedTimes.push(timeKey)
markNotified(st, timeKey) == Ledger(Append(st.keys, timeKey))

\* a saveState whose write error escapes into the catch block of
\* checkAvailability
SendSucceedsSaveThrows ==
  /\ pc = "Sending"
  /\ state.kind # "string"
  /\ okCount' = [k \in DOMAIN okCount \cup {timeKeyOf(DATE, cur)} |->
                   IF k = timeKeyOf(DATE, cur)
                     THEN (IF Count(okCount, k) < MaxSends
                             THEN Count(okCount, k) + 1 ELSE MaxSends)
                     ELSE okCount[k]]
  /\ runSent' = runSent \cup {timeKeyOf(DATE, cur)}
  /\ \E written \in BOOLEAN :
       IF written
         THEN /\ state' = markNotified(state, timeKeyOf(DATE, cur))
              /\ file' = saveState(file, state', TRUE)
              /\ idx' = idx + 1
              /\ cur' = NULL
              /\ pc' = "Notifying"
              /\ UNCHANGED <<config, run, attempt, prior, collected, queue,
                             failedKeys, skipped, outOfWindow, called, saveFailed>>
         ELSE /\ saveFailed' = TRUE
              /\ Retry
              /\ UNCHANGED <<failedKeys, skipped>>

\* sendNotification returned true: push the key and save the ledger
SendSucceeds ==
  /\ pc = "Sending"
  /\ LET timeKey == timeKeyOf(DATE, cur)
     IN  /\ okCount' = [k \in DOMAIN okCount \cup {timeKey} |->
                          IF k = timeKey
                            THEN (IF Count(okCount, k) < MaxSends
                                    THEN Count(okCount, k) + 1 ELSE MaxSends)
                            ELSE okCount[k]]
         /\ runSent' = runSent \cup {timeKey}
         /\ IF state.kind = "string"
              \* state.notifiedTimes.push is not a function: TypeError inside the try
              THEN Retry /\ UNCHANGED <<failedKeys, skipped, saveFailed>>
              ELSE /\ state' = markNotified(state, timeKey)
                   /\ \E written \in BOOLEAN :
                        /\ file' = saveState(file, state', written)
                        /\ saveFailed' = (saveFailed \/ ~written)
                   /\ idx' = idx + 1
                   /\ cur' = NULL
                   /\ pc' = "Notifying"
                   /\ UNCHANGED <<config, run, attempt, prior, collected, queue,
                                  failedKeys, skipped, outOfWindow, called>>

\* a loop that pushes and saves the key whatever sendNotification returned
SendFailsAndMarks ==
  /\ pc = "Sending"
  /\ state.kind # "string"
  /\ failedKeys' = failedKeys \cup {timeKeyOf(DATE, cur)}
  /\ state' = markNotified(state, timeKeyOf(DATE, cur))
  /\ file' = saveState(file, state', TRUE)
  /\ idx' = idx + 1
  /\ cur' = NULL
  /\ pc' = "Notifying"
  /\ UNCHANGED <<config, run, attempt, prior, collected, queue,
                 okCount, runSent, skipped, outOfWindow, called, saveFailed>>

\* a sendNotification that lets the error of the request escape into the
\* catch block of checkAvailability
SendFailsAndThrows ==
  /\ pc = "Sending"
  /\ failedKeys' = failedKeys \cup {timeKeyOf(DATE, cur)}
  /\ Retry
  /\ UNCHANGED <<okCount, runSent, skipped, saveFailed>>

\* sendNotification returned false: Pushover answered with an error, or
\* the request threw
SendFails ==
  /\ pc = "Sending"
  /\ failedKeys' = failedKeys \cup {timeKeyOf(DATE, cur)}
  /\ idx' = idx + 1
  /\ cur' = NULL
  /\ pc' = "Notifying"
  /\ UNCHANGED <<config, file, run, attempt, state, prior, collected, queue,
                 okCount, runSent, skipped, outOfWindow, called, saveFailed>>

\* an end of the run that writes the ledger once more
CloseAndSaves ==
  /\ pc = "Closing"
  /\ pc' = "Done"
  /\ file' = saveState(file, state, TRUE)
  /\ UNCHANGED <<config, run, attempt, state, prior, collected, loop, history>>

\* finally { await browser.close() }, then process.exit(0)
Close ==
  /\ pc = "Closing"
  /\ pc' = "Done"
  /\ UNCHANGED <<config, file, run, attempt, state, prior, collected, loop, history>>

\* the scheduler starts the next process
NextRun ==
  /\ pc \in {"Done", "Fatal"}
  /\ run < MaxRuns
  /\ run' = run + 1
  /\ attempt' = 1
  /\ pc' = "Start"
  /\ FreshAttempt
  /\ runSent' = {}
  /\ skipped' = {}
  /\ UNCHANGED <<config, file, okCount, failedKeys, saveFailed>>

\* one process: node check.js
Next ==
  \/ ConfigInvalid
  \/ StartAttempt
  \/ LaunchFails
  \/ GotoOk
  \/ GotoFails
  \/ ObserveFails
  \/ \E p \in DOMAIN Payloads : ResponseArrives(p)
  \/ \E i \in 1..MaxResponses : ResponseParsed(i)
  \/ EndObserve
  \/ DomFallback
  \/ EndMonitoring
  \/ ProcessTime
  \/ SendSucceeds
  \/ SendFails
  \/ Close

Spec == Init /\ [][Next]_vars

\* the ledger files the first of several scheduled processes may find
RunsFiles == {MissingFile, JsonFile(Ledger(<<timeKeyOf(D15, T1930), timeKeyOf(D16, T2100)>>))}

InitRuns == InitFrom({<<T1800, T2100>>}, RunsFiles) /\ NoCalls

\* the scheduled processes, one after the other, sharing STATE_FILE
NextRuns == Next \/ NextRun

SpecRuns == InitRuns /\ [][NextRuns]_vars

\* one process under the scheduling of the Node event loop: a step that
\* can be taken is taken
InitFair == InitFrom({<<T1800, T2100>>}, {MissingFile}) /\ NoCalls
FairSpec == InitFair /\ [][Next]_vars /\ WF_vars(Next)

(***************************************************************************)
(* The functions of the scripts, each called on its own                    *)
(***************************************************************************)

\* the texts after the H:MM of a time string
Suffixes ==
  { <<>>, <<" ", "A", "M">>, <<" ", "P", "M">>, <<" ", "a", "m">>, <<" ", "p", "m">>, <<":", "0", "0">>, <<" ", "A", "M", " ", "P", "M">> }

\* the hours and minutes written in a time string
Hours == {0, 1, 2, 3, 4, 5, 6, 7, 8, 9, 10, 11, 12, 19, 23}

MinuteTexts == {<<"0", "5">>, <<"3", "0">>}

\* the time strings formatTime is given: H:MM or HH:MM and a suffix
TimeStrings ==
  {toString(h) \o <<":">> \o m \o x : h \in Hours, m \in MinuteTexts, x \in Suffixes}

kSelf == <<"s", "e", "l", "f">>

kParent == <<"p", "a", "r", "e", "n", "t">>

\* o = {"date":"2024-03-15","time":"19:30"}; o.self = o
CyclicSelf ==
  << Obj(<<[k |-> kDate, v |-> 2], [k |-> kTime, v |-> 3], [k |-> kSelf, v |-> 1]>>),
     Str(D15), Str(T1930) >>

\* o = {"date":"2024-03-15","slots":[{"time":"21:00"}]}; o.slots[0].parent = o
CyclicParent ==
  << Obj(<<[k |-> kDate, v |-> 2], [k |-> kSlots, v |-> 3]>>),
     Str(D15), Arr(<<4>>),
     Obj(<<[k |-> kTime, v |-> 5], [k |-> kParent, v |-> 1]>>), Str(T2100) >>

\* values whose date key comes after the times:
\* {"time":"19:30","date":"2024-03-15"},
\* {"slots":[{"time":"21:00"},"18:00"],"date":"2024-03-15"} and
\* {"time":"19:30","date":"2024-03-16"}
DateLast ==
  { << Obj(<<[k |-> kTime, v |-> 2], [k |-> kDate, v |-> 3]>>), Str(T1930), Str(D15) >>,
    << Obj(<<[k |-> kSlots, v |-> 2], [k |-> kDate, v |-> 3]>>),
       Arr(<<4, 5>>), Str(D15), Obj(<<[k |-> kTime, v |-> 6]>>), Str(T1800), Str(T2100) >>,
    << Obj(<<[k |-> kTime, v |-> 2], [k |-> kDate, v |-> 3]>>), Str(T1930), Str(D16) >> }

\* the values the extraction functions are given: parsed responses and
\* values that contain themselves
Values == Range(Payloads) \cup {CyclicSelf, CyclicParent} \cup DateLast

CallInputs ==
  {[fn |-> "formatTime", str |-> t, heap |-> <<>>] : t \in TimeStrings}
    \cup {[fn |-> f, str |-> <<>>, heap |-> v] :
            f \in {"extractTimes", "extractTimesFromJson"}, v \in Values}

\* the process stands still while a function is called on its own
InitCalls ==
  /\ InitFrom({<<T1800, T2100>>}, {MissingFile})
  /\ variant = "check"
  /\ missingVars = {}
  /\ given \in CallInputs
  /\ returned = NoReturn
  /\ elapsed = 0

idle == <<variant, BOOKING_URL, PARTY_SIZE, DATE, WINDOW_START, WINDOW_END,
          PUSHOVER_USER_KEY, PUSHOVER_APP_TOKEN, given, elapsed,
          file, run, attempt, pc, state, prior, collected, loop, history>>

\* formatTime(timeStr)
CallFormatTime ==
  /\ given.fn = "formatTime"
  /\ ~returned.done
  /\ returned' = [NoReturn EXCEPT !.done = TRUE, !.str = formatTime(given.str)]
  /\ UNCHANGED idle

\* extractTimes(data) of part_000
CallExtractTimes ==
  /\ given.fn = "extractTimes"
  /\ ~returned.done
  /\ returned' = [NoReturn EXCEPT !.done = TRUE,
                                   !.set = extractTimes(given.heap, 1),
                                   !.walked = extractTimesWalk(given.heap, 1)]
  /\ UNCHANGED idle

\* extractTimesFromJson(json, DATE) of part_001: it returns its list, or
\* the RangeError of the stack leaves it
CallExtractTimesFromJson ==
  /\ given.fn = "extractTimesFromJson"
  /\ ~returned.done
  /\ \E found \in {extractTimesFromJson(given.heap, 1, DATE, FALSE)} :
       returned' = IF RangeError \in Range(found)
                     THEN [NoReturn EXCEPT !.done = TRUE, !.threw = TRUE]
                     ELSE [NoReturn EXCEPT !.done = TRUE, !.list = found]
  /\ UNCHANGED idle

NextCalls ==
  \/ CallFormatTime
  \/ CallExtractTimes
  \/ CallExtractTimesFromJson

SpecCalls == InitCalls /\ [][NextCalls]_vars

(***************************************************************************)
(* Claims about the run and the ledger                                     *)
(***************************************************************************)

\* the keys of a ledger value that is a list
KeysOf(st) == IF st.kind = "list" THEN Range(st.keys) ELSE {}

\* the minutes since midnight of a normalized HH:MM string, digit by digit
MinutesOf(t) ==
  (DigitVal(t[1]) * 10 + DigitVal(t[2])) * 60 + DigitVal(t[4]) * 10 + DigitVal(t[5])

\* the HH:MM part of a key DATE_HH:MM
TimeOfKey(k) == SubSeq(k, Len(k) - 4, Len(k))

\* C1: over the scheduled runs of one DATE, as long as every save wrote the
\* file, no key is sent successfully more than once (a key that the first
\* run finds in the ledger counts as sent once before); and no attempt
\* calls sendNotification for a key of the ledger it loaded.
C1_AtMostOncePerKey ==
  /\ ~saveFailed => \A k \in DOMAIN okCount : okCount[k] <= 1
  /\ \A k \in called : k \notin KeysOf(prior)

\* a second run skips a key that the first run sent and saved
C1_Witness ==
  /\ run = 2
  /\ ~saveFailed
  /\ timeKeyOf(DATE, T2100) \in skipped
  /\ Count(okCount, timeKeyOf(DATE, T2100)) = 1

\* C2: checkAvailability is attempted at most twice in one process.
C2_AtMostTwoAttempts == attempt <= 2

\* C3: one process eventually ends, in Done (exit 0) or in a fatal error
\* (exit 1).
C3_Terminates == <>(pc \in {"Done", "Fatal"})

\* C4: every key of the in-memory ledger that the loaded ledger did not
\* hold was sent successfully in this run, and the file holds no key that
\* the in-memory ledger lacks (the save follows the append).
C4_MarkedOnlyAfterSuccess ==
  state.kind = "list" =>
    /\ \A k \in KeysOf(state) : k \in KeysOf(prior) \/ k \in runSent
    /\ file.kind = "json" => \A k \in KeysOf(file.value) : k \in KeysOf(state)

\* a key was appended and saved after its send succeeded
C4_Witness ==
  /\ pc = "Notifying"
  /\ \E k \in runSent : k \in KeysOf(state) /\ k \notin KeysOf(prior)
  /\ file = JsonFile(state)

\* C5: a failed send leaves the ledger in memory and on file as it was
\* and the loop goes on; a key whose sends have all failed is in neither
\* ledger and is not skipped as already notified, in this run or the next.
C5_FailedSendNotMarked ==
  /\ [](\A k \in failedKeys :
          Count(okCount, k) = 0 =>
            /\ k \notin skipped
            /\ k \notin KeysOf(state)
            /\ file.kind = "json" => k \notin KeysOf(file.value))
  /\ [][failedKeys' # failedKeys =>
          /\ pc' = "Notifying"
          /\ state' = state
          /\ file' = file]_vars

\* the next run calls sendNotification again for a key whose send failed
C5_Witness ==
  /\ run = 2
  /\ pc = "Sending"
  /\ cur = T2100
  /\ timeKeyOf(DATE, T2100) \in failedKeys

\* C6: sendNotification is called only for times t with
\* WINDOW_START <= t <= WINDOW_END in minutes since midnight, and no time
\* with WINDOW_START <= t <= WINDOW_END is rejected by the window test.
C6_WindowInclusive ==
  /\ \A k \in called :
       /\ MinutesOf(WINDOW_START) <= MinutesOf(TimeOfKey(k))
       /\ MinutesOf(TimeOfKey(k)) <= MinutesOf(WINDOW_END)
  /\ \A t \in outOfWindow :
       \/ MinutesOf(t) < MinutesOf(WINDOW_START)
       \/ MinutesOf(t) > MinutesOf(WINDOW_END)

\* both ends of the window were found eligible in one attempt
C6_Witness ==
  /\ timeKeyOf(DATE, WINDOW_START) \in called
  /\ timeKeyOf(DATE, WINDOW_END) \in called
  /\ WINDOW_START # WINDOW_END

(***************************************************************************)
(* Claims about what is extracted from the observations                    *)
(***************************************************************************)

\* the nodes of a payload under node id, id included
RECURSIVE Descendants(_, _)
Descendants(heap, id) ==
  {id} \cup UNION {Descendants(heap, c) :
                     c \in {heap[id].ents[i].v : i \in DOMAIN heap[id].ents}
                             \cup Range(heap[id].items)}

\* the mappings of a payload with a date field that names date d
DateTagged(heap, d) ==
  {i \in DOMAIN heap : heap[i].kind \in {"obj", "arr"} /\ ownDateMatches(heap, i, d)}

\* the strings of a payload inside a mapping whose date field names d
ConfirmedStrings(heap, d) ==
  {heap[i].s : i \in {j \in UNION {Descendants(heap, a) : a \in DateTagged(heap, d)} :
                        heap[j].kind = "str"}}

\* the same over the payloads the handler has parsed in this attempt
ConfirmedOf(ids, d) == UNION {ConfirmedStrings(Payloads[p], d) : p \in ids}

\* C7: in the variants that filter by date, every time the response
\* handler has collected is a string (part_001) or comes from a string
\* (part_000) inside a mapping whose own date field names DATE.
C7_ConfirmationFlowsDown ==
  /\ variant = "part_001" =>
       \A i \in 1..(Len(availableTimes) - Len(domTimes)) :
         availableTimes[i] \in ConfirmedOf(parsedIds, DATE)
  /\ variant = "part_000" =>
       \A t \in allExtractedTimes :
         \E str \in ConfirmedOf(parsedIds, DATE) : t \in extractTimesOfString(str)

\* C8: an attempt whose payloads name DATE in no date field, and that took
\* no time from the rendered page, calls sendNotification for nothing and
\* leaves the in-memory ledger as loaded.
C8_OtherDatesSendNothing ==
  (/\ \A p \in parsedIds \cup Range(pending) : DateTagged(Payloads[p], DATE) = {}
   /\ domTimes = <<>>)
  => /\ called = {}
     /\ state.kind = "list" => state = prior

\* the keys a run is to notify: the normalized date-confirmed times of its
\* parsed payloads that lie in the window and are not in the loaded ledger
ExpectedKeys ==
  {timeKeyOf(DATE, t) :
     t \in {u \in {formatTime(str) : str \in ConfirmedOf(parsedIds, DATE)} :
              /\ u # NULL
              /\ MinutesOf(WINDOW_START) <= MinutesOf(u)
              /\ MinutesOf(u) <= MinutesOf(WINDOW_END)
              /\ timeKeyOf(DATE, u) \notin KeysOf(prior)}}

\* C9: a process that ends in Done with a proper ledger loaded, no time
\* taken from the rendered page and no send or save failed has sent
\* exactly ExpectedKeys, and its ledger is the loaded one plus those keys,
\* in memory and (when anything was sent) on file.
C9_ExactlyTheExpectedKeys ==
  (/\ pc = "Done"
   /\ prior.kind = "list"
   /\ domTimes = <<>>
   /\ failedKeys = {}
   /\ ~saveFailed)
  => /\ runSent = ExpectedKeys
     /\ KeysOf(state) = KeysOf(prior) \cup ExpectedKeys
     /\ ExpectedKeys # {} => file = JsonFile(state)

\* C10: whatever STATE_FILE holds, the loaded ledger is a list of keys,
\* and no step of the notification loop restarts checkAvailability.
C10_LedgerContentHarmless ==
  /\ [](pc # "Start" => prior.kind = "list")
  /\ [][(pc = "Notifying" \/ pc = "Sending") => pc' # "Start"]_vars

(***************************************************************************)
(* The monitoring loop of part_000, second by second                       *)
(***************************************************************************)

\* const monitorDuration = 20000, in waits of 1000 ms
MonitorSeconds == 20

\* Date.now() - startTime < monitorDuration && relevantUrls.length < 50
monitoring == elapsed < MonitorSeconds /\ relevantUrls < MaxRelevantUrls

\* a handler that records a matching URL whatever the length of the list
UrlRecordedUncapped ==
  /\ HandlerLive
  /\ variant = "part_000"
  /\ relevantUrls <= MaxRelevantUrls
  /\ relevantUrls' = relevantUrls + 1
  /\ UNCHANGED <<config, file, run, attempt, pc, state, prior, seenEndpoints, pending,
                 availableTimes, allExtractedTimes, jsonResponses, parsedIds, domTimes, hasNoAvailability,
                 loop, history>>

\* the handler for a response whose URL matches and whose content is not
\* JSON: `if (matchesPattern && relevantUrls.length < 50) relevantUrls.push(url)`
UrlRecorded ==
  /\ HandlerLive
  /\ variant = "part_000"
  /\ relevantUrls < MaxRelevantUrls
  /\ relevantUrls' = relevantUrls + 1
  /\ UNCHANGED <<config, file, run, attempt, pc, state, prior, seenEndpoints, pending,
                 availableTimes, allExtractedTimes, jsonResponses, parsedIds, domTimes, hasNoAvailability,
                 loop, history>>

\* the handler for a response that arrives when the list holds 50 URLs:
\* the condition is false and nothing is done
ResponseIgnored ==
  /\ HandlerLive
  /\ variant = "part_000"
  /\ ~(relevantUrls < MaxRelevantUrls)
  /\ UNCHANGED vars

\* one turn of the loop: the condition holds, await page.waitForTimeout(1000)
Tick ==
  /\ pc = "Observing"
  /\ variant = "part_000"
  /\ monitoring
  /\ elapsed' = elapsed + 1
  /\ UNCHANGED <<variant, BOOKING_URL, PARTY_SIZE, DATE, WINDOW_START, WINDOW_END,
                 PUSHOVER_USER_KEY, PUSHOVER_APP_TOKEN, given, returned,
                 file, run, attempt, pc, state, prior, collected, loop, history>>

\* the condition of the loop is false: the code after the loop runs
MonitorExit ==
  /\ ~monitoring
  /\ EndMonitoring

InitMonitor ==
  /\ InitFrom({<<T1800, T2100>>}, {MissingFile})
  /\ NoCalls
  /\ variant = "part_000"
  /\ missingVars = {}

NextMonitor ==
  \/ StartAttempt
  \/ GotoOk
  \/ UrlRecorded
  \/ ResponseIgnored
  \/ \E p \in DOMAIN Payloads : ResponseArrives(p)
  \/ \E i \in 1..MaxResponses : ResponseParsed(i)
  \/ Tick
  \/ MonitorExit

\* the loop under the scheduling of the Node event loop: timers fire
SpecMonitor == InitMonitor /\ [][NextMonitor]_vars /\ WF_vars(Tick) /\ WF_vars(MonitorExit)
                 /\ WF_vars(StartAttempt) /\ WF_vars(GotoOk)

(***************************************************************************)
(* Claims about failures of the save, the growth of the ledger             *)
(***************************************************************************)

\* a is an initial part of b
IsPrefix(a, b) == Len(a) <= Len(b) /\ SubSeq(b, 1, Len(a)) = a

\* C11: a saveState that does not write the file neither aborts nor
\* restarts the run: the step that fails to save goes on with the loop in
\* the same attempt with the key in the in-memory ledger, every key sent
\* stays in that ledger (so the loop's lookup finds it), and the process
\* reaches Done.
C11_SaveFailureNonFatal ==
  /\ [](saveFailed => pc \in {"Notifying", "Sending", "Closing", "Done"})
  /\ [](saveFailed => runSent \subseteq KeysOf(state))
  /\ [][(saveFailed' /\ ~saveFailed) =>
          /\ pc' = "Notifying"
          /\ attempt' = attempt
          /\ timeKeyOf(DATE, cur) \in KeysOf(state')
          /\ file' = file]_vars
  /\ (saveFailed ~> pc = "Done")

\* after a save that failed for 18:00 the loop goes on to send 21:00
C11_Witness ==
  /\ saveFailed
  /\ pc = "Sending"
  /\ cur = T2100
  /\ timeKeyOf(DATE, T1800) \in KeysOf(state)
  /\ file = MissingFile

\* C12: the keys of the ledger an attempt loaded stay, in their order, at
\* the head of the in-memory ledger, and of every ledger the attempt
\* writes: keys are only appended.
C12_LedgerOnlyGrows ==
  /\ []((prior.kind = "list" /\ state.kind = "list") => IsPrefix(prior.keys, state.keys))
  /\ [][file' # file =>
          /\ file'.kind = "json"
          /\ file'.value.kind = "list"
          /\ IsPrefix(prior.keys, file'.value.keys)]_vars

\* a run that loaded a non-empty ledger has appended a key and written it
C12_Witness ==
  /\ prior.kind = "list"
  /\ prior.keys # <<>>
  /\ state.kind = "list"
  /\ Len(state.keys) > Len(prior.keys)
  /\ file = JsonFile(state)

(***************************************************************************)
(* Claims about restarts after the decision has begun                      *)
(***************************************************************************)

\* C19: an attempt restarts only from a failure while loading the page or
\* observing its responses, and never after sendNotification has been
\* called in that attempt.
C19_RestartOnlyWhileLoadingOrObserving ==
  [][(pc' = "Start" /\ run' = run) =>
        /\ (pc = "Loading" \/ pc = "Observing")
        /\ called = {}]_vars

\* C20: in one process, its retry included, no key is sent successfully
\* more than once.
C20_NoDuplicateInOneInvocation ==
  \A k \in runSent : Count(okCount, k) <= 1

(***************************************************************************)
(* Claims about the order and the range of the times notified              *)
(***************************************************************************)

\* C13: within an attempt the in-window times reach sendNotification in
\* ascending time-of-day order: a time handed to sendNotification is not
\* earlier than any time handed to it before in the attempt.
C13_AscendingOrder ==
  [][(pc = "Notifying" /\ pc' = "Sending") =>
        \A k \in called : MinutesOf(TimeOfKey(k)) <= MinutesOf(cur')]_vars

\* t is HH:MM with an hour below 24 and a minute below 60
InRange(t) ==
  /\ Len(t) = 5
  /\ DigitVal(t[1]) * 10 + DigitVal(t[2]) < 24
  /\ DigitVal(t[4]) * 10 + DigitVal(t[5]) < 60

\* C15: no time with an hour of 24 or more or a minute of 60 or more is
\* emitted by the extraction, reaches the window test or is handed to
\* sendNotification.
C15_OnlyTimesInRange ==
  /\ \A t \in allExtractedTimes : InRange(t)
  /\ \A t \in outOfWindow : InRange(t)
  /\ \A k \in called : InRange(TimeOfKey(k))

(***************************************************************************)
(* Claims about the configuration and the notification sent                *)
(***************************************************************************)

\* the required variables that are unset or empty
Unset == {key \in DOMAIN requiredVars : requiredVars[key] = <<>>}

\* C17: with one of the seven required variables unset or empty the
\* process does nothing but exit with code 1: the ledger is neither read
\* nor written, no page is loaded, no response is handled and
\* sendNotification is never called.
C17_MissingConfigExitsFirst ==
  /\ [](Unset # {} =>
          /\ (pc = "Start" \/ pc = "Fatal")
          /\ attempt = 1
          /\ state = Unloaded
          /\ pending = <<>>
          /\ called = {}
          /\ runSent = {}
          /\ failedKeys = {})
  /\ [][Unset # {} => (file' = file /\ (pc = "Start" => pc' = "Fatal"))]_vars

\* the process has exited on a missing variable
C17_Witness == Unset # {} /\ pc = "Fatal"

\* the text "Table available at {t} on {DATE} for {PARTY_SIZE} people."
TableAvailableText(t) ==
  <<"T", "a", "b", "l", "e", " ", "a", "v", "a", "i", "l", "a", "b", "l", "e", " ", "a", "t", " ">> \o t \o <<" ", "o", "n", " ">> \o DATE \o <<" ", "f", "o", "r", " ">> \o PARTY_SIZE \o <<" ", "p", "e", "o", "p", "l", "e", ".">>

TwoDigits(n) == <<DigitChars[(n \div 10) + 1], DigitChars[(n % 10) + 1]>>

\* the time strings with hour h, minute text m and suffix x
Written(h, m, x) == toString(h) \o <<":">> \o m \o x

HasPM(x) == \E i \in 1..(Len(x) - 1) : (x[i] = "P" \/ x[i] = "p") /\ (x[i + 1] = "M" \/ x[i + 1] = "m")

HasAM(x) == \E i \in 1..(Len(x) - 1) : (x[i] = "A" \/ x[i] = "a") /\ (x[i + 1] = "M" \/ x[i + 1] = "m")

\* the hour by the three cases, the first that applies
HourByCases(h, x) ==
  IF HasPM(x) /\ h < 12 THEN h + 12
  ELSE IF HasAM(x) /\ h = 12 THEN 0
  ELSE h

\* the hour by the two rules applied one after the other
HourInSequence(h, x) ==
  IF HasAM(x) /\ (h = 12 \/ (h = 0 /\ HasPM(x))) THEN 0
  ELSE IF HasPM(x) /\ h < 12 THEN h + 12
  ELSE h

\* C16 (as stated): formatTime returns HH:MM with the hour h+12 if the
\* string contains PM and h < 12, 0 if it contains AM and h = 12, and h
\* otherwise.
C16_HourByCases ==
  returned.done =>
    \A h \in Hours, m \in MinuteTexts, x \in Suffixes :
      given.str = Written(h, m, x) =>
        returned.str = TwoDigits(HourByCases(h, x)) \o <<":">> \o m

\* C16 (amended): formatTime returns HH:MM where the PM rule (add 12 if
\* h < 12) is applied first and the AM rule (12 becomes 0) is applied to
\* its result, so hour 0 with both AM and PM gives 00; for every hour 1..12
\* with AM or PM alone the result is the standard 12-to-24-hour
\* conversion, and 19:30:00 gives 19:30.
C16_HourInSequence ==
  returned.done =>
    /\ \A h \in Hours, m \in MinuteTexts, x \in Suffixes :
         given.str = Written(h, m, x) =>
           /\ returned.str = TwoDigits(HourInSequence(h, x)) \o <<":">> \o m
           /\ (h \in 1..12 /\ HasAM(x) /\ ~HasPM(x)) =>
                returned.str = TwoDigits(h % 12) \o <<":">> \o m
           /\ (h \in 1..12 /\ HasPM(x) /\ ~HasAM(x)) =>
                returned.str = TwoDigits((h % 12) + 12) \o <<":">> \o m
    /\ given.str = <<"1", "9", ":", "3", "0", ":", "0", "0">> => returned.str = T1930

\* formatTime has returned 19:30 for "7:30 PM"
C16_Witness ==
  /\ returned.done
  /\ given.str = <<"7", ":", "3", "0", " ", "P", "M">>
  /\ returned.str = T1930

(***************************************************************************)
(* Claims about extraction from values that contain themselves             *)
(***************************************************************************)

\* the nodes a node refers to
Children(heap, i) ==
  Range(heap[i].items) \cup {heap[i].ents[j].v : j \in DOMAIN heap[i].ents}

\* the nodes that can be reached from the nodes of S
RECURSIVE Reach(_, _)
Reach(heap, S) ==
  LET T == S \cup UNION {Children(heap, i) : i \in S}
  IN  IF T = S THEN S ELSE Reach(heap, T)

\* a value that can be reached from itself
IsCyclic(heap) ==
  \E i \in DOMAIN heap : i \in Reach(heap, Children(heap, i))

\* the strings of a value that read as a time
TimeStringsOf(heap) ==
  {heap[i].s : i \in {j \in Reach(heap, {1}) : heap[j].kind = "str" /\ hasTimePattern(heap[j].s)}}

HandlerTimes(p) ==
  IF variant = "check" THEN Range(timesOfCheck[p])
  ELSE IF variant = "part_001" THEN Range(timesOfPart001[DATE][p])
  ELSE timesOfPart000[DATE][p]

\* the times the handlers have collected for the decision
Collected ==
  IF variant = "part_000" THEN allExtractedTimes ELSE Range(availableTimes)

\* C21: once the candidates have been read for the decision, every response
\* that was delivered to the handler in the attempt has contributed its
\* times: none is still waiting for its body to be parsed with times that
\* the decision did not see.
C21_EveryResponseContributes ==
  (pc = "Notifying" \/ pc = "Sending" \/ pc = "Closing" \/ pc = "Done") =>
    \A i \in DOMAIN pending : HandlerTimes(pending[i]) \subseteq Collected

\* C22: in one attempt sendNotification is called at most once for a key:
\* the loop never calls it for a key it has called it for before in the
\* attempt, whatever the earlier call returned.
C22_OneCallPerKey ==
  [][(pc = "Notifying" /\ pc' = "Sending") => timeKeyOf(DATE, cur') \notin called]_vars

(***************************************************************************)
(* Claims about the ledger over the runs                                   *)
(***************************************************************************)

\* no element occurs twice in the sequence
NoDuplicates(seq) == \A i, j \in DOMAIN seq : i # j => seq[i] # seq[j]

\* C23: over the scheduled runs the in-memory ledger holds the loaded keys
\* and one more key for each successful send of the run, every append adds
\* one key that the ledger did not hold and that was just sent, and neither
\* the in-memory ledger nor the file ever holds a key twice.
C23_OneNewKeyPerSuccess ==
  /\ [](state.kind = "list" =>
          /\ Len(state.keys) = Len(prior.keys) + Cardinality(runSent)
          /\ NoDuplicates(state.keys))
  /\ [](file.kind = "json" => NoDuplicates(file.value.keys))
  /\ [][(state.kind = "list" /\ state' # state /\ state'.kind = "list") =>
          \E k \in runSent' \ runSent :
            /\ state'.keys = Append(state.keys, k)
            /\ k \notin Range(state.keys)]_vars

\* the second run has appended a key to a ledger that held keys
C23_Witness ==
  /\ run = 2
  /\ state.kind = "list"
  /\ prior.keys # <<>>
  /\ Cardinality(runSent) = 1
  /\ Len(state.keys) = Len(prior.keys) + 1
  /\ file = JsonFile(state)

\* C24: the ledger is read only by the step that starts an attempt, and
\* the file changes only in the step that follows a successful send, which
\* writes the in-memory ledger with the key just sent appended; every
\* other step, and so every attempt without a successful send, leaves the
\* file as it was.
C24_ReadAtStartWrittenAfterSuccess ==
  /\ [][prior' # prior => ((pc = "Start" /\ prior' = state') \/ pc' = "Start")]_vars
  /\ [][file' # file =>
          /\ pc = "Sending"
          /\ pc' = "Notifying"
          /\ timeKeyOf(DATE, cur) \in runSent'
          /\ state'.keys = Append(state.keys, timeKeyOf(DATE, cur))
          /\ file' = JsonFile(state')]_vars
  /\ []((pc = "Done" /\ attempt = 1 /\ runSent = {} /\ prior.kind = "list") =>
          (file = MissingFile \/ file = CorruptFile \/ file = JsonFile(prior)))

\* an attempt whose only send failed has ended and no file was written
C24_Witness ==
  /\ pc = "Done"
  /\ runSent = {}
  /\ failedKeys # {}
  /\ file = MissingFile

(***************************************************************************)
(* Claims about fragments that are no time                                 *)
(***************************************************************************)

\* the string holds a digit, a colon and two digits
ReadsAsTime(t) ==
  \E i \in 1..(Len(t) - 3) :
    /\ t[i] \in Range(DigitChars) /\ t[i + 1] = ":"
    /\ t[i + 2] \in Range(DigitChars) /\ t[i + 3] \in Range(DigitChars)

\* the index of the payload that holds the fragment "TBD" between two times
WithTbd == CHOOSE p \in DOMAIN Payloads : Payloads[p] = PayloadDescending

\* C25: a fragment that holds no digit-colon-digits pattern never becomes
\* a candidate, is never handed to sendNotification and never enters the
\* ledger, and the step that meets it neither ends nor restarts the
\* attempt and leaves ledger and file alone.
C25_UnparseableDropped ==
  /\ [](/\ \A t \in Collected : ReadsAsTime(t)
        /\ \A i \in DOMAIN queue : ReadsAsTime(queue[i])
        /\ \A k \in called \cup runSent \cup failedKeys : ReadsAsTime(TimeOfKey(k))
        /\ cur # NULL => ReadsAsTime(cur))
  /\ [][(WithTbd \in parsedIds' \ parsedIds) =>
          /\ pc' = pc /\ attempt' = attempt
          /\ state' = state /\ file' = file]_vars

\* the response with "TBD" between 21:00 and 18:00 was parsed and the loop
\* has sent 21:00 and is sending 18:00
C25_Witness ==
  /\ variant = "check"
  /\ WithTbd \in parsedIds
  /\ pc = "Sending"
  /\ cur = T1800
  /\ timeKeyOf(DATE, T2100) \in runSent

(***************************************************************************)
(* Claims about the monitoring loop of part_000                            *)
(***************************************************************************)

LoopT == loopTime(variant, queue[idx])

\* the key of that time: the configured date, an underscore, the time
LoopKey == DATE \o <<"_">> \o LoopT

\* the loop stands before the ledger lookup of an in-window time
AtLookup ==
  /\ pc = "Notifying"
  /\ idx \in DOMAIN queue
  /\ state.kind = "list"
  /\ LoopT # NULL
  /\ loopInWindow(variant, LoopT, WINDOW_START, WINDOW_END)

\* C27: an in-window time is skipped as already notified exactly if the
\* key DATE_t is an entry of the ledger, and sendNotification is called
\* for it otherwise: an entry with another date suppresses nothing; and
\* two different pairs of date and time never have the same key.
C27_SkippedIffExactKey ==
  /\ [][AtLookup =>
          IF \E i \in DOMAIN state.keys : state.keys[i] = LoopKey
            THEN pc' = "Notifying" /\ idx' = idx + 1 /\ LoopKey \in skipped' /\ called' = called
            ELSE pc' = "Sending" /\ cur' = LoopT /\ LoopKey \in called']_vars
  /\ \A d1, d2 \in {D15, D16} : \A t1, t2 \in {T1800, T1930, T2100, T2200} :
       timeKeyOf(d1, t1) = timeKeyOf(d2, t2) => (d1 = d2 /\ t1 = t2)

\* 21:00 of 2024-03-15 is being sent although the ledger holds 21:00 of
\* 2024-03-16
C27_Witness ==
  /\ pc = "Sending"
  /\ cur = T2100
  /\ DATE = D15
  /\ timeKeyOf(D16, T2100) \in KeysOf(state)

(***************************************************************************)
(* Claims about a window whose start is after its end                      *)
(***************************************************************************)

\* WINDOW_START is later than WINDOW_END
Inverted ==
  /\ WINDOW_START # NULL
  /\ WINDOW_END # NULL
  /\ MinutesOf(WINDOW_START) > MinutesOf(WINDOW_END)

\* C28: with WINDOW_START later than WINDOW_END no time is within the
\* window: sendNotification is never called, nothing is marked, the ledger
\* file is never written, and the notification loop neither restarts the
\* attempt nor fails: it runs to its end and the attempt ends in Done.
C28_InvertedWindowSendsNothing ==
  /\ [](Inverted => called = {} /\ runSent = {} /\ failedKeys = {} /\ pc # "Sending")
  /\ [][Inverted => file' = file]_vars
  /\ [][(Inverted /\ (pc = "Notifying" \/ pc = "Closing")) =>
          /\ (pc' = "Notifying" \/ pc' = "Closing" \/ pc' = "Done")
          /\ attempt' = attempt
          /\ state' = state]_vars

\* an attempt with an inverted window found times, rejected them all and
\* ended in Done
C28_Witness ==
  /\ Inverted
  /\ pc = "Done"
  /\ Collected # {}
  /\ outOfWindow # {}

(***************************************************************************)
(* Claims about the order of the keys of a mapping                         *)
(***************************************************************************)

\* the mappings of a value that have a matching date field themselves or
\* lie inside a mapping that has one
ConfirmedMappings(heap, d) ==
  {m \in Reach(heap, {1}) :
     /\ heap[m].kind = "obj"
     /\ \E a \in DateTagged(heap, d) : m \in Reach(heap, {a})}

\* the time strings that are a time field of mapping m or an element of a
\* list that is a field of m
FieldsAndSlots(heap, m) ==
  UNION {LET value == heap[heap[m].ents[i].v]
         IN  (IF /\ someIncludes(toLowerCase(heap[m].ents[i].k), timeFields)
                 /\ value.kind = "str" /\ hasTimePattern(value.s)
                THEN {value.s} ELSE {})
               \cup {heap[j].s : j \in {c \in Range(value.items) :
                                          heap[c].kind = "str" /\ hasTimePattern(heap[c].s)}}
         : i \in DOMAIN heap[m].ents}

\* the same value with the keys of every mapping in the opposite order
Reversed(heap) ==
  [i \in DOMAIN heap |->
     [heap[i] EXCEPT !.ents = [j \in DOMAIN heap[i].ents |->
                                 heap[i].ents[Len(heap[i].ents) + 1 - j]]]]

\* C29: extractTimesFromJson of part_001 retains the time fields and slot
\* lists of exactly the mappings that have a matching date field or lie
\* inside one, and retains the same times when the keys of every mapping
\* come in the opposite order, the date key before or after the times.
C29_KeyOrderIrrelevant ==
  (returned.done /\ given.fn = "extractTimesFromJson" /\ ~returned.threw) =>
    /\ Range(returned.list)
         = UNION {FieldsAndSlots(given.heap, m) : m \in ConfirmedMappings(given.heap, DATE)}
    /\ Range(returned.list)
         = Range(extractTimesFromJson(Reversed(given.heap), 1, DATE, FALSE))

\* times were retained from a value whose date key is its last key, after
\* the list that holds the times
C29_Witness ==
  /\ returned.done
  /\ given.fn = "extractTimesFromJson"
  /\ given.heap \in DateLast
  /\ given.heap[1].ents[1].k = kSlots
  /\ Range(returned.list) = {T1800, T2100}

(***************************************************************************)
(* Claims about the times taken from the rendered page                     *)
(***************************************************************************)

\* the keys of the date-confirmed time strings of the payloads parsed in
\* this attempt
ConfirmedKeys ==
  {timeKeyOf(DATE, formatTime(str)) :
     str \in {c \in ConfirmedOf(parsedIds, DATE) : formatTime(c) # NULL}}

\* C30: the extraction from the rendered page is entered only at a moment
\* when no time from the network has been collected and no no-availability
\* message was detected, and times of the page are added by that
\* extraction alone; in an attempt that detected the message, no time of
\* the page is added and sendNotification is called only for date-confirmed
\* times from the network.
C30_DomOnlyWithoutNetworkAndMessage ==
  /\ [][(pc # "DomFallback" /\ pc' = "DomFallback") =>
          (pc = "Observing" /\ availableTimes = <<>> /\ ~hasNoAvailability')]_vars
  /\ [][(domTimes' # domTimes /\ domTimes' # <<>>) => pc = "DomFallback"]_vars
  /\ [](hasNoAvailability =>
          /\ variant = "part_001"
          /\ pc # "DomFallback"
          /\ domTimes = <<>>
          /\ called \subseteq ConfirmedKeys)

\* an attempt of part_001 detected the message and still calls
\* sendNotification for a date-confirmed time from the network
C30_Witness ==
  /\ hasNoAvailability
  /\ pc = "Sending"
  /\ timeKeyOf(DATE, cur) \in ConfirmedKeys
====
